---- MODULE Spec2Model ----
(***************************************************************************)
(* Batch generation orchestrator of banana_editor_standalone.py            *)
(* (class BananaEditor with its TextToImageWorker / ImageEditWorker        *)
(* threads).  The main window lives in the GUI thread; the workers are     *)
(* QThreads whose signals reach the window's slots through the GUI         *)
(* thread's event queue (queued connections).                              *)
(***************************************************************************)
EXTENDS Integers, Sequences, FiniteSets, TLC

(***************************************************************************)
(* Bounds of the model                                                     *)
(***************************************************************************)
\* worker threads launched during one run of the application
MaxWorkers == 3
\* user events (typing, dropping or removing an image, toggling the save
\* location) and clock ticks during one run
MaxEvents == 2
\* batch submissions during one run
MaxBatches == 2
MaxSaveSteps == 1

(***************************************************************************)
(* Program constants                                                       *)
(***************************************************************************)
\* batch_combo offers "1-img" .. "4-img"
MaxBatchCount == 4
\* image_paths = [None] * 4
NumSlots == 4
\* _check_saved_files: current_time - st_mtime < 300
MaxAge == 300
\* auto_save_results: len(image_data) > 100
MinValidLen == 100
\* auto_save_results: while filepath.exists() and counter < 1000
MaxRetry == 1000
MaxImagesLimit == 3

None == "None"
BananaDir == "banana"
OrigDir == "orig"
Dirs == {BananaDir, OrigDir}

\* image files the user drops, selects or pastes; all live in OrigDir
DropPaths == {"orig/a.png"}
Parent(p) == OrigDir

\* what the generation API hands back to one worker: the byte lengths of the
\* image parts of the response (<<>>: a response without image data)
ApiResults == {<<>>, <<200>>, <<200, 50>>}

\* the clock at start-up and the length of one tick
NowInit == 2 * MaxAge
TickStep == MaxAge

\* a byte blob is <<worker, index, length>>; worker 0 marks bytes that were
\* not produced by a worker of this run (files found on disk, error.png)
BlobLen(b) == b[3]
Payload(w, lens) == [k \in 1..Len(lens) |-> <<w, k, lens[k]>>]
ErrorPng == <<0, 0, 200>>

VARIABLES
    prompt_text,          \* prompt_input.toPlainText().strip() is non-empty
    image_paths,          \* the 4 input slots
    selected_image_path,  \* legacy "first image" path
    save_on_original,     \* save location toggle
    buttons,              \* enabled flag of the three generation buttons
    batch_workers,        \* workers of the current batch
    batch_results,        \* accumulated image blobs
    completed_workers,
    total_workers,
    current_results,      \* displayed result set, input of save_results
    disk,                 \* per directory: exists, files (number -> mtime, data)
    now,                  \* clock
    events,               \* user events and clock ticks so far
    workers,              \* every QThread launched: kind, batch, state
    queue,                \* posted, not yet handled completion signals
    batches,              \* history: per batch started, its kind and total
    finalize_runs,        \* history: per batch, runs of finalize while current
    last_finalize,        \* history: what the last run of finalize saw and did
    delivered,            \* history: completions handled since start/finalize
    delivered_data,       \* history: their success payloads, concatenated
    savers                \* program instances inside auto_save_results, by step

vars == <<prompt_text, image_paths, selected_image_path, save_on_original,
          buttons, batch_workers, batch_results, completed_workers,
          total_workers, current_results, disk, now, events,
          workers, queue, batches, finalize_runs, last_finalize,
          delivered, delivered_data, savers>>

uiVars == <<prompt_text, image_paths, selected_image_path, save_on_original>>
batchVars == <<batch_workers, batch_results, completed_workers, total_workers>>
histVars == <<batches, finalize_runs, last_finalize, delivered, delivered_data>>

(***************************************************************************)
(* Files                                                                   *)
(***************************************************************************)
NoFiles == [n \in {} |-> <<>>]
File(mtime, data) == [mtime |-> mtime, data |-> data]
EmptyDir == [exists |-> TRUE, files |-> NoFiles]
AbsentDir == [exists |-> FALSE, files |-> NoFiles]

SetMax(S) == CHOOSE x \in S : x + 1 \notin S /\ \A y \in S : y <= x

\* the disk the application finds at start-up (mtimes are pairwise distinct):
\* no banana folder yet; the folder of the input images holds three files of
\* today, numbered 1, 2 and 4 (number 3 was deleted), two written 10 and 20
\* time units ago and one more than MaxAge ago
InitDisk ==
    [d \in Dirs |-> IF d = BananaDir
                    THEN AbsentDir
                    ELSE [exists |-> TRUE,
                          files |-> (1 :> File(NowInit - MaxAge - 10, <<0, 1, 200>>)
                                  @@ 2 :> File(NowInit - 20, <<0, 2, 200>>)
                                  @@ 4 :> File(NowInit - 10, <<0, 4, 200>>))]]

(***************************************************************************)
(* Slots (BananaEditor.image_paths) and the buttons                        *)
(***************************************************************************)
Slots == 0..(NumSlots - 1)

\* get_active_image_paths: the occupied slots' paths in slot order
RECURSIVE ActiveFrom(_, _)
ActiveFrom(paths, i) ==
    IF i >= NumSlots THEN <<>>
    ELSE IF paths[i] = None THEN ActiveFrom(paths, i + 1)
         ELSE <<paths[i]>> \o ActiveFrom(paths, i + 1)

\* a variant that lists the paths from the highest slot down;
\* C21_ActivePathsInSlotOrder does not hold with it
ActivePathsDescending(paths) ==
    LET asc == ActiveFrom(paths, 0)
    IN [k \in 1..Len(asc) |-> asc[Len(asc) + 1 - k]]

get_active_image_paths(paths) == ActiveFrom(paths, 0)

get_image_count(paths) == Len(get_active_image_paths(paths))

\* update_image_info: the legacy selected_image_path follows the first image
update_image_info(paths) ==
    IF get_image_count(paths) = 0 THEN None
    ELSE get_active_image_paths(paths)[1]

\* update_ui_state: the buttons' enabled flags and the "ready" status message
ButtonsFor(sel, prompt) ==
    [img_to_img |-> (sel # None /\ prompt), txt_to_img |-> prompt, imagen4 |-> prompt]
ReadyStatus(sel, prompt) ==
    IF sel # None /\ prompt THEN "ready_all"
    ELSE IF sel # None THEN "need_prompt"
    ELSE IF prompt THEN "ready_text"
    ELSE "idle"

AllDisabled == [img_to_img |-> FALSE, txt_to_img |-> FALSE, imagen4 |-> FALSE]


(***************************************************************************)
(* File naming and the scan of the save directory                          *)
(***************************************************************************)
\* F(v), with the value v worked out once, as the assignment to a local
\* variable does
Eval(F(_), v) == CHOOSE r \in {F(x) : x \in {v}} : TRUE

\* the directory auto_save_results writes to and _check_saved_files scans
SaveDir(sel, soo) == IF soo /\ sel # None THEN Parent(sel) ELSE BananaDir

\* the number segment of a file name, a sequence of decimal digits:
\* f"{n:03d}" pads with zeros to 3 digits, int(name_parts[2]) reads it back
RECURSIVE Digits(_)
Digits(n) == IF n < 10 THEN <<n>> ELSE Digits(n \div 10) \o <<n % 10>>

RECURSIVE ZeroPad(_, _)
ZeroPad(ds, width) == IF Len(ds) >= width THEN ds ELSE ZeroPad(<<0>> \o ds, width)

\* a variant that writes the number without padding; C15_ValidResultsConsecutive
\* does not hold with it
FileNameUnpadded(n) == Digits(n)

FileName(n) == ZeroPad(Digits(n), 3)

RECURSIVE ParseInt(_)
ParseInt(ds) ==
    IF ds = <<>> THEN 0
    ELSE 10 * ParseInt(SubSeq(ds, 1, Len(ds) - 1)) + ds[Len(ds)]

\* the names of today's files in a directory (the glob of banana_<date>_*.png)
ExistingFiles(dir) == {FileName(n) : n \in DOMAIN dir.files}

\* a variant that hands out the lowest number no file has, refilling gaps;
\* C14_NextIsMaxPlusOne does not hold with it
FirstUnusedNumber(dir) ==
    CHOOSE n \in 1..(Cardinality(DOMAIN dir.files) + 1) :
       /\ n \notin DOMAIN dir.files
       /\ \A m \in 1..(n - 1) : m \in DOMAIN dir.files

\* get_next_file_number: highest number of today's files + 1, 1 if none
get_next_file_number(dir) ==
    Eval(LAMBDA numbers : IF numbers = {} THEN 1 ELSE SetMax(numbers) + 1,
         {ParseInt(name) : name \in ExistingFiles(dir)})

\* saved_files.sort(key=st_mtime, reverse=True): numbers, newest first; the
\* i-th is the file with i - 1 newer ones (the files of a directory have
\* distinct modification times)
SortByMtimeDesc(files, nums) ==
    [i \in 1..Cardinality(nums) |->
        CHOOSE n \in nums :
           Cardinality({m \in nums : files[m].mtime > files[n].mtime}) = i - 1]

\* a variant that does not truncate; C13_ScanIsFilterSortTruncate does not
\* hold with it
TakeAll(seq, n) == seq

\* saved_files[:self.total_workers]
Take(seq, n) == IF Len(seq) <= n THEN seq ELSE SubSeq(seq, 1, n)

\* _check_saved_files: the total_workers newest files of today, of which the
\* ones modified less than MaxAge ago are kept; a path is <<directory, number>>
check_saved_files(d, sel, soo, tw, t) ==
    LET dirname == SaveDir(sel, soo)
        dir == d[dirname]
        sorted == SortByMtimeDesc(dir.files, DOMAIN dir.files)
        firstN == Take(sorted, tw)
    IN IF ~dir.exists THEN <<>>
       ELSE Eval(LAMBDA recent : [i \in 1..Len(recent) |-> <<dirname, recent[i]>>],
                 SelectSeq(firstN, LAMBDA n : t - dir.files[n].mtime < MaxAge))

\* while filepath.exists() and counter < 1000: counter += 1
\* the loop ends at the first counter whose name no file has, or at MaxRetry
FreeNumber(files, n, counter) ==
    LET last == CHOOSE c \in counter..MaxRetry :
                   /\ n + c \notin DOMAIN files \/ c = MaxRetry
                   /\ \A k \in counter..(c - 1) : n + k \in DOMAIN files
    IN n + last

WriteFile(files, n, mtime, data) ==
    [m \in DOMAIN files \cup {n} |-> IF m = n THEN File(mtime, data) ELSE files[m]]

\* one turn of the loop of auto_save_results: the image is written under the
\* first free number from n on, at time mtime; acc is [files, saved]
SaveOne(acc, n, mtime, data) ==
    Eval(LAMBDA free : [files |-> WriteFile(acc.files, free, mtime, data),
                        saved |-> Append(acc.saved, free)],
         FreeNumber(acc.files, n, 0))

\* the loop of auto_save_results over valid_results, from index i (1-based);
\* the i-th file is written at time t + i.  fail is the index at which
\* decoding or writing the image raises (0: none does): the exception leaves
\* the loop, the files written before it stay
RECURSIVE SaveLoop(_, _, _, _, _, _)
SaveLoop(valid, i, start, t, fail, acc) ==
    IF i > Len(valid) \/ i = fail THEN acc
    ELSE Eval(LAMBDA next : SaveLoop(valid, i + 1, start, t, fail, next),
              SaveOne(acc, start + (i - 1), t + i, valid[i]))

\* valid_results: if image_data and len(image_data) > 100
ValidResults(results) == SelectSeq(results, LAMBDA b : BlobLen(b) > MinValidLen)

\* auto_save_results: [disk, now, saved]; saved lists the paths written
auto_save_results(results, d, sel, soo, t, fail) ==
    LET dirname == SaveDir(sel, soo)
        dir == d[dirname]
        \* save_dir.mkdir(exist_ok=True) has made the directory; what is
        \* returned once the loop has left [files, saved] in out
        Saved(out) ==
            [disk |-> [d EXCEPT ![dirname] = [exists |-> TRUE, files |-> out.files]],
             now |-> t + Len(out.saved),
             saved |-> [i \in 1..Len(out.saved) |-> <<dirname, out.saved[i]>>]]
        \* if not valid_results: return
        Save(valid) ==
            IF valid = <<>>
            THEN [disk |-> d, now |-> t, saved |-> <<>>]
            ELSE Eval(LAMBDA start_number :
                         Eval(Saved, SaveLoop(valid, 1, start_number, t, fail,
                                              [files |-> dir.files, saved |-> <<>>])),
                      get_next_file_number(dir))
    IN Eval(Save, ValidResults(results))

\* display_results: stores the result set unless it is empty
display_results(results, cr) == IF results = <<>> THEN cr ELSE results

\* _display_saved_files_as_results: the bytes of the files, displayed
ReadFiles(d, paths) == [i \in 1..Len(paths) |-> d[paths[i][1]].files[paths[i][2]].data]

\* test_display_mock_results: total_workers copies of error.png, if it exists
MockResults(tw, epng) == IF epng THEN [i \in 1..tw |-> ErrorPng] ELSE <<>>


(***************************************************************************)
(* Finalize: BananaEditor.on_all_batch_workers_complete                    *)
(***************************************************************************)
\* the message finalize passes to update_status: its kind and the numbers and
\* the location it carries (-1: the message carries no such number)
Outcome(kind, images, done, total, location) ==
    [kind |-> kind, images |-> images, done |-> done, total |-> total,
     location |-> location]

\* a variant that looks at the files of the scan before the accumulated
\* results; C6_ResultsBeforeScan does not hold with it
FinalizeBranchDiskFirst(has_api_results, saved_files) ==
    IF saved_files # <<>> THEN "mixed"
    ELSE IF has_api_results THEN "success"
    ELSE "failed"

\* the branch finalize takes: if has_api_results / elif saved_files / else
FinalizeBranch(has_api_results, saved_files) ==
    IF has_api_results THEN "success"
    ELSE IF saved_files # <<>> THEN "mixed"
    ELSE "failed"

\* a variant that replaces the list instead of extending it;
\* C4_DeliveriesSerialized does not hold with it
ExtendLost(results, image_data_list) == image_data_list

\* batch_results.extend(image_data_list)
Extend(results, image_data_list) == results \o image_data_list

\* what one run of finalize computes from the window's state: the new
\* current_results, disk and clock, the outcome message, and what it scanned,
\* displayed and saved on the way
on_all_batch_workers_complete(br, tw, cr, d, t, sel, soo, epng, fail) ==
    LET has_api_results == br # <<>>
        \* if hasattr(self, 'selected_image_path') and self.selected_image_path
        scanned == sel # None
        mock == IF tw > 1 THEN MockResults(tw, epng) ELSE <<>>
        \* the three branches, given the files the scan returned and what
        \* auto_save_results does with the accumulated results
        Branches(saved_files, save) ==
            LET branch == FinalizeBranch(has_api_results, saved_files)
            IN IF branch = "success"
               THEN [current_results |-> display_results(br, cr),
                     disk |-> save.disk, now |-> save.now,
                     outcome |-> Outcome("success", Len(br), -1, -1,
                                    IF soo /\ sel # None THEN "original" ELSE "banana"),
                     scanned |-> scanned, scan |-> saved_files,
                     displayed |-> br, save_input |-> br, saved |-> save.saved,
                     saved_data |-> ReadFiles(save.disk, save.saved)]
               ELSE IF branch = "mixed"
               THEN [current_results |-> display_results(ReadFiles(d, saved_files), cr),
                     disk |-> d, now |-> t,
                     outcome |-> Outcome("mixed", -1, Len(saved_files), tw,
                                    IF soo THEN "original" ELSE "banana"),
                     scanned |-> scanned, scan |-> saved_files,
                     displayed |-> ReadFiles(d, saved_files), save_input |-> <<>>,
                     saved |-> <<>>, saved_data |-> <<>>]
               ELSE [current_results |-> display_results(mock, cr),
                     disk |-> d, now |-> t,
                     outcome |-> Outcome("failed", -1, tw, tw, "none"),
                     scanned |-> scanned, scan |-> saved_files,
                     displayed |-> mock, save_input |-> <<>>, saved |-> <<>>,
                     saved_data |-> <<>>]
    IN Eval(LAMBDA saved_files :
               Eval(LAMBDA save : Branches(saved_files, save),
                    auto_save_results(br, d, sel, soo, t, fail)),
            IF scanned THEN check_saved_files(d, sel, soo, tw, t) ELSE <<>>)

\* history of the last run of finalize, before any has run
NoFinalize ==
    [batch |-> 0, completed |-> 0, total |-> 0, input |-> <<>>,
     outcome |-> Outcome("none", -1, -1, -1, "none"), label |-> "idle",
     scanned |-> FALSE, scan |-> <<>>, recon |-> <<>>, displayed |-> <<>>,
     save_input |-> <<>>, saved |-> <<>>, saved_data |-> <<>>, fail |-> 0,
     trigger |-> 0, before |-> <<>>, after |-> <<>>]

CurBatch == Len(batches)

\* the workers launched for batch b, and whether one has not been handled yet
WorkersOf(b) == {w \in 1..Len(workers) : workers[w].batch = b}
Unhandled(b) == \E w \in WorkersOf(b) : workers[w].st # "handled"

(***************************************************************************)
(* Initial state: BananaEditor.__init__                                    *)
(***************************************************************************)
\* the program instances that save into the shared directories, and one of
\* them outside auto_save_results
Savers == 1..2
IdleSaver ==
    [pc |-> "idle", dir |-> BananaDir, seen |-> {}, start |-> 0, valid |-> <<>>,
     i |-> 0, counter |-> 0, occupied |-> FALSE, path |-> 0, saved |-> <<>>,
     runs |-> 0]

Init ==
    /\ prompt_text = FALSE
    \* main: window.preload_image(preload_path) if --image is given
    /\ \E preload_path \in DropPaths \cup {None} :
          /\ image_paths = [i \in Slots |-> IF i = 0 THEN preload_path ELSE None]
          /\ selected_image_path = preload_path
    /\ save_on_original = TRUE
    /\ buttons = ButtonsFor(None, FALSE)
    /\ batch_workers = <<>>
    /\ batch_results = <<>>
    /\ completed_workers = 0
    /\ total_workers = 0
    /\ current_results = <<>>
    /\ disk = InitDisk
    /\ now = NowInit
    /\ events = 0
    /\ workers = <<>>
    /\ queue = <<>>
    /\ batches = <<>>
    /\ finalize_runs = <<>>
    /\ last_finalize = NoFinalize
    /\ delivered = 0
    /\ delivered_data = <<>>
    /\ savers = [s \in Savers |-> IdleSaver]

(***************************************************************************)
(* User events                                                             *)
(***************************************************************************)
\* prompt_input.textChanged -> update_ui_state
textChanged(nonEmpty) ==
    /\ events < MaxEvents
    /\ events' = events + 1
    /\ prompt_text' = nonEmpty
    /\ buttons' = ButtonsFor(selected_image_path, nonEmpty)
    /\ UNCHANGED <<savers, image_paths, selected_image_path, save_on_original,
                   batchVars, current_results, disk, now, workers, queue, histVars>>

\* the first empty slot, NumSlots if there is none
RECURSIVE FirstEmptyFrom(_, _)
FirstEmptyFrom(paths, i) ==
    IF i >= NumSlots THEN NumSlots
    ELSE IF paths[i] = None THEN i ELSE FirstEmptyFrom(paths, i + 1)

\* a variant that fills the highest empty slot;
\* C19_AddFillsLowestEmptySlot does not hold with it
add_image_to_highest_slot(paths, p) ==
    IF \A i \in Slots : paths[i] # None THEN [paths |-> paths, ok |-> FALSE]
    ELSE LET i == CHOOSE j \in Slots :
                     paths[j] = None /\ \A k \in Slots : k > j => paths[k] # None
         IN [paths |-> [paths EXCEPT ![i] = p], ok |-> TRUE]

\* a variant that replaces the image of the last slot of a full session;
\* C22_SlotsKeepTheirPaths does not hold with it
add_image_or_replace_last(paths, p) ==
    IF \E i \in Slots : paths[i] = None
    THEN LET i == CHOOSE j \in Slots :
                     paths[j] = None /\ \A k \in Slots : k < j => paths[k] # None
         IN [paths |-> [paths EXCEPT ![i] = p], ok |-> TRUE]
    ELSE [paths |-> [paths EXCEPT ![NumSlots - 1] = p], ok |-> TRUE]

\* add_image_to_next_available_slot: [paths, ok]
add_image_to_next_available_slot(paths, p) ==
    LET i == FirstEmptyFrom(paths, 0)
    IN IF i < NumSlots
       THEN [paths |-> [paths EXCEPT ![i] = p], ok |-> TRUE]
       ELSE [paths |-> paths, ok |-> FALSE]

\* a caller of add_image_to_next_available_slot: the slots and, through
\* update_image_info, selected_image_path
AddImage(p) ==
    LET r == add_image_to_next_available_slot(image_paths, p)
    IN /\ image_paths' = r.paths
       /\ selected_image_path' = IF r.ok THEN update_image_info(r.paths)
                                 ELSE selected_image_path

\* dropEvent with one image file
dropEvent(p) ==
    /\ events < MaxEvents
    /\ events' = events + 1
    /\ AddImage(p)
    /\ UNCHANGED <<savers, prompt_text, save_on_original, buttons, batchVars,
                   current_results, disk, now, workers,
                   queue, histVars>>

\* a variant that closes the gap, moving the images of the higher slots down;
\* C20_RemoveEmptiesOneSlot does not hold with it
ClearSlotAndCompact(paths, i) ==
    IF i \in Slots
    THEN [j \in Slots |-> IF j < i THEN paths[j]
                          ELSE IF j + 1 \in Slots THEN paths[j + 1] ELSE None]
    ELSE paths

\* if 0 <= slot_index < 4: self.image_paths[slot_index] = None
ClearSlot(paths, i) ==
    IF i \in Slots THEN [paths EXCEPT ![i] = None] ELSE paths

\* remove_image_from_slot: the slots and, through update_image_info,
\* selected_image_path
RemoveImage(i) ==
    /\ image_paths' = ClearSlot(image_paths, i)
    /\ selected_image_path' = IF i \in Slots THEN update_image_info(image_paths')
                              ELSE selected_image_path

\* remove_image_from_slot (the slot's delete button)
remove_image_from_slot(i) ==
    /\ events < MaxEvents
    /\ events' = events + 1
    /\ RemoveImage(i)
    /\ UNCHANGED <<savers, prompt_text, save_on_original, buttons, batchVars,
                   current_results, disk, now, workers,
                   queue, histVars>>

\* a variant of the fallback that replaces the image of the last slot;
\* C30_ReplaceFirstOnPasteOnly does not hold with it
ReplaceLastSlot(paths, p) == [paths EXCEPT ![NumSlots - 1] = p]

\* paste_from_clipboard, the fallback when add_image_to_next_available_slot
\* returns False: self.image_paths[0] = file_path
ReplaceFirstSlot(paths, p) == [paths EXCEPT ![0] = p]

\* paste_from_clipboard with an image or an image file on the clipboard: the
\* slots, selected_image_path through update_image_info, and the buttons
\* through update_ui_state
PasteImage(p) ==
    LET r == add_image_to_next_available_slot(image_paths, p)
        pasted == IF r.ok THEN r.paths ELSE ReplaceFirstSlot(image_paths, p)
    IN /\ image_paths' = pasted
       /\ selected_image_path' = update_image_info(pasted)
       /\ buttons' = ButtonsFor(selected_image_path', prompt_text)

\* preload_image of a valid image file: with clear_existing all slots are
\* emptied first; a path some slot holds already is not added again
PreloadImage(p, clear_existing) ==
    LET cleared == IF clear_existing THEN [i \in Slots |-> None] ELSE image_paths
        r == add_image_to_next_available_slot(cleared, p)
    IN IF \E i \in Slots : cleared[i] = p
       THEN UNCHANGED <<image_paths, selected_image_path>>
       ELSE /\ image_paths' = r.paths
            /\ selected_image_path' = IF r.ok THEN update_image_info(r.paths)
                                      ELSE selected_image_path

\* the status dropEvent and select_image end with for one image file
DropReport(paths, p) ==
    IF add_image_to_next_available_slot(paths, p).ok THEN "added"
    ELSE "no_free_slot"

\* the status paste_from_clipboard ends with
PasteReport(paths, p) ==
    IF add_image_to_next_available_slot(paths, p).ok THEN "next_slot"
    ELSE "replaced_slot_1"

\* the status preload_image ends with
PreloadReport(paths, p, clear_existing) ==
    LET cleared == IF clear_existing THEN [i \in Slots |-> None] ELSE paths
    IN IF \E i \in Slots : cleared[i] = p THEN "already_in_slots"
       ELSE IF add_image_to_next_available_slot(cleared, p).ok THEN "loaded"
       ELSE "slots_full"

\* self.image_paths.index(path): the first slot that holds the path
IndexOf(paths, path) ==
    CHOOSE i \in Slots : paths[i] = path /\ \A j \in Slots : j < i => paths[j] # path

\* prepare_session_contents: the numbers N of the "Image N" references put
\* into the prompt (none for a single image) and the images attached, those
\* of the active paths that can be opened (unloadable: the paths that cannot)
prepare_session_contents(paths, unloadable) ==
    LET active_image_paths == get_active_image_paths(paths)
        image_count == Len(active_image_paths)
    IN [image_refs |-> IF image_count > 1
                       THEN [k \in 1..image_count |->
                               IndexOf(paths, active_image_paths[k]) + 1]
                       ELSE <<>>,
        images |-> SelectSeq(active_image_paths, LAMBDA path : path \notin unloadable)]

\* paste_from_clipboard (Ctrl+V, Ctrl+P) with an image on the clipboard
paste_from_clipboard(p) ==
    /\ events < MaxEvents
    /\ events' = events + 1
    /\ PasteImage(p)
    /\ UNCHANGED <<savers, prompt_text, save_on_original, batchVars,
                   current_results, disk, now, workers, queue, histVars>>

\* on_save_location_toggle
on_save_location_toggle ==
    /\ events < MaxEvents
    /\ events' = events + 1
    /\ save_on_original' = ~save_on_original
    /\ UNCHANGED <<savers, prompt_text, image_paths, selected_image_path, buttons,
                   batchVars, current_results, disk, now, workers,
                   queue, histVars>>


(***************************************************************************)
(* Starting a generation                                                   *)
(***************************************************************************)
NewWorkers(kind, batch, n) ==
    [i \in 1..n |-> [kind |-> kind, batch |-> batch, st |-> "running", out |-> <<>>]]

\* history: the batches started so far, with the ones that still have a worker
\* to be handled marked as overlapped by the batch that starts now
StartBatch(kind, total, launched) ==
    Append([b \in 1..Len(batches) |->
              IF Unhandled(b) THEN [batches[b] EXCEPT !.overlapped = TRUE]
              ELSE batches[b]],
           [kind |-> kind, total |-> total, launched |-> launched,
            overlapped |-> \E b \in 1..Len(batches) : Unhandled(b),
            save_dir |-> SaveDir(selected_image_path, save_on_original),
            scan |-> selected_image_path # None])

\* start_text_to_image_generation (TXT-TO-IMG: use_gemini, IMAGEN-4: not)
start_text_to_image_generation(use_gemini, batch_count) ==
    /\ prompt_text
    /\ Len(workers) + batch_count <= MaxWorkers
    /\ Len(batches) < MaxBatches
    /\ buttons' = AllDisabled
    /\ batch_workers' = [i \in 1..batch_count |-> Len(workers) + i]
    /\ batch_results' = <<>>
    /\ completed_workers' = 0
    /\ total_workers' = batch_count
    /\ workers' = workers \o NewWorkers("t2i", CurBatch + 1, batch_count)
    /\ batches' = StartBatch("t2i", batch_count, batch_count)
    /\ finalize_runs' = Append(finalize_runs, 0)
    /\ delivered' = 0
    /\ delivered_data' = <<>>
    /\ UNCHANGED <<savers, uiVars, current_results, disk, now, events, queue,
                   last_finalize>>

\* start_batch_image_editing; prep_ok: Image.open(selected_image_path) works
start_batch_image_editing(batch_count, prep_ok) ==
    /\ Len(workers) + batch_count <= MaxWorkers
    /\ Len(batches) < MaxBatches
    /\ batch_results' = <<>>
    /\ completed_workers' = 0
    /\ total_workers' = batch_count
    /\ IF prep_ok
       THEN /\ buttons' = AllDisabled
            /\ batch_workers' = [i \in 1..batch_count |-> Len(workers) + i]
            /\ workers' = workers \o NewWorkers("edit", CurBatch + 1, batch_count)
       ELSE \* except: update_status(...); set_buttons_enabled(True)
            /\ buttons' = ButtonsFor(selected_image_path, prompt_text)
            /\ batch_workers' = <<>>
            /\ workers' = workers
    /\ batches' = StartBatch("edit", batch_count, IF prep_ok THEN batch_count ELSE 0)
    /\ finalize_runs' = Append(finalize_runs, 0)
    /\ delivered' = 0
    /\ delivered_data' = <<>>
    /\ UNCHANGED <<savers, uiVars, current_results, disk, now, events, queue,
                   last_finalize>>

\* start_editing -> start_session_generation: one ImageEditWorker that reports
\* to on_generation_complete / on_generation_error
start_editing ==
    /\ get_image_count(image_paths) # 0
    /\ prompt_text
    /\ Len(workers) + 1 <= MaxWorkers
    /\ buttons' = AllDisabled
    /\ current_results' = <<>>
    /\ workers' = workers \o NewWorkers("single", 0, 1)
    /\ UNCHANGED <<savers, uiVars, batchVars, disk, now, events, queue, histVars>>

\* start_generation: a click on an enabled generation button (or Ctrl+Enter
\* through trigger_gen_ai for IMG-TO-IMG); batch_count is the batch_combo's value
start_generation(mode, batch_count, prep_ok) ==
    \/ /\ mode = "image_to_image"
       /\ buttons.img_to_img
       /\ prompt_text
       /\ selected_image_path # None
       /\ batch_count = 1
       /\ start_editing
    \/ /\ mode = "image_to_image"
       /\ buttons.img_to_img
       /\ prompt_text
       /\ selected_image_path # None
       /\ batch_count > 1
       /\ start_batch_image_editing(batch_count, prep_ok)
    \/ /\ mode = "text_to_image"
       /\ buttons.txt_to_img
       /\ start_text_to_image_generation(TRUE, batch_count)
    \/ /\ mode = "imagen4"
       /\ buttons.imagen4
       /\ start_text_to_image_generation(FALSE, batch_count)

(***************************************************************************)
(* Worker threads                                                          *)
(***************************************************************************)
Signal(w, sig, data) == [w |-> w, sig |-> sig, data |-> data]

\* run() without the "if not results" test: an empty API result is emitted
\* with the success signal
EmittedEmptyAsSuccess(w, raised, lens) ==
    IF raised THEN Signal(w, "error", <<>>)
    ELSE Signal(w, "ok", Payload(w, lens))

\* what run() emits: the error signal if the API call raised or returned no
\* image, else the success signal with the images
Emitted(w, raised, lens) ==
    IF raised \/ lens = <<>> THEN Signal(w, "error", <<>>)
    ELSE Signal(w, "ok", Payload(w, lens))

\* TextToImageWorker.run: emits images_generated(results) or error_occurred
TextToImageWorker_run(w, raised, lens) ==
    /\ w \in 1..Len(workers)
    /\ workers[w].kind = "t2i"
    /\ workers[w].st = "running"
    /\ queue' = Append(queue, Emitted(w, raised, lens))
    /\ workers' = [workers EXCEPT ![w].st = "emitted",
                                  ![w].out = Emitted(w, raised, lens).data]
    /\ UNCHANGED <<savers, uiVars, buttons, batchVars, current_results, disk,
                   now, events, histVars>>

\* ImageEditWorker.run: emits finished(results) or error
ImageEditWorker_run(w, raised, lens) ==
    /\ w \in 1..Len(workers)
    /\ workers[w].kind \in {"edit", "single"}
    /\ workers[w].st = "running"
    /\ queue' = Append(queue, Emitted(w, raised, lens))
    /\ workers' = [workers EXCEPT ![w].st = "emitted",
                                  ![w].out = Emitted(w, raised, lens).data]
    /\ UNCHANGED <<savers, uiVars, buttons, batchVars, current_results, disk,
                   now, events, histVars>>

(***************************************************************************)
(* The GUI thread handles the next posted completion signal                *)
(***************************************************************************)
\* if self.completed_workers >= self.total_workers
AllDone(cw, tw) == cw >= tw

\* the run of finalize that the handler of a completion with images `data`
\* makes on the window's state.  epng: error.png exists in the working
\* directory; fail: the image of valid_results at which saving raises
FinalizeRun(data, epng, fail) ==
    on_all_batch_workers_complete(Extend(batch_results, data), total_workers,
        current_results, disk, now, selected_image_path, save_on_original,
        epng, fail)

\* the common part of on_batch_worker_complete and on_batch_worker_error:
\* count the completion, add its images (none for an error), then either show
\* the progress or run finalize (fin) and the cleanup that follows it
BatchProgress(data, fin) ==
    LET cw == completed_workers + 1
    IN IF AllDone(cw, total_workers)
       THEN /\ current_results' = fin.current_results
            /\ disk' = fin.disk
            /\ now' = fin.now
            /\ batch_workers' = <<>>
            /\ batch_results' = <<>>
            /\ completed_workers' = 0
            /\ total_workers' = 0
            \* set_buttons_enabled(True) -> update_ui_state
            /\ buttons' = ButtonsFor(selected_image_path, prompt_text)
       ELSE /\ batch_results' = Extend(batch_results, data)
            /\ completed_workers' = cw
            /\ UNCHANGED <<batch_workers, total_workers, current_results, disk,
                           now, buttons>>

\* history of the deliveries handled since the last batch started, and of
\* the runs of finalize
Delivery(data, fin, fail) ==
    /\ delivered' = delivered + 1
    /\ delivered_data' = delivered_data \o data
    /\ IF total_workers' = 0
       THEN /\ finalize_runs' = [finalize_runs EXCEPT ![CurBatch] = @ + 1]
            /\ last_finalize' =
                 [batch |-> CurBatch, completed |-> completed_workers + 1,
                  total |-> total_workers,
                  input |-> Extend(batch_results, data),
                  outcome |-> fin.outcome,
                  label |-> ReadyStatus(selected_image_path, prompt_text),
                  scanned |-> fin.scanned, scan |-> fin.scan,
                  recon |-> check_saved_files(disk, selected_image_path,
                                save_on_original, total_workers, now),
                  displayed |-> fin.displayed, save_input |-> fin.save_input,
                  saved |-> fin.saved, saved_data |-> fin.saved_data,
                  fail |-> fail, trigger |-> Head(queue).w,
                  before |-> current_results, after |-> fin.current_results]
       ELSE UNCHANGED <<finalize_runs, last_finalize>>
    /\ UNCHANGED batches

\* on_batch_worker_complete(image_data_list)
on_batch_worker_complete(epng, fail) ==
    /\ queue # <<>>
    /\ Head(queue).sig = "ok"
    /\ workers[Head(queue).w].kind \in {"t2i", "edit"}
    /\ queue' = Tail(queue)
    /\ \E fin \in {FinalizeRun(Head(queue).data, epng, fail)} :
          /\ BatchProgress(Head(queue).data, fin)
          /\ Delivery(Head(queue).data, fin, fail)
    /\ workers' = [workers EXCEPT ![Head(queue).w].st = "handled"]
    /\ UNCHANGED <<savers, uiVars, events>>

\* on_batch_worker_error(error_message)
on_batch_worker_error(epng) ==
    /\ queue # <<>>
    /\ Head(queue).sig = "error"
    /\ workers[Head(queue).w].kind \in {"t2i", "edit"}
    /\ queue' = Tail(queue)
    /\ \E fin \in {FinalizeRun(<<>>, epng, 0)} :
          /\ BatchProgress(<<>>, fin)
          /\ Delivery(<<>>, fin, 0)
    /\ workers' = [workers EXCEPT ![Head(queue).w].st = "handled"]
    /\ UNCHANGED <<savers, uiVars, events>>

\* on_generation_complete(image_data_list): the single edit's results
on_generation_complete(fail) ==
    /\ queue # <<>>
    /\ Head(queue).sig = "ok"
    /\ workers[Head(queue).w].kind = "single"
    /\ queue' = Tail(queue)
    /\ \E save \in {auto_save_results(Head(queue).data, disk,
                         selected_image_path, save_on_original, now, fail)} :
          /\ current_results' = display_results(Head(queue).data, current_results)
          /\ disk' = save.disk
          /\ now' = save.now
    /\ buttons' = ButtonsFor(selected_image_path, prompt_text)
    /\ workers' = [workers EXCEPT ![Head(queue).w].st = "handled"]
    /\ UNCHANGED <<savers, uiVars, batchVars, events, histVars>>

\* on_generation_error(error_message): the single edit failed
on_generation_error ==
    /\ queue # <<>>
    /\ Head(queue).sig = "error"
    /\ workers[Head(queue).w].kind = "single"
    /\ queue' = Tail(queue)
    /\ buttons' = ButtonsFor(selected_image_path, prompt_text)
    /\ workers' = [workers EXCEPT ![Head(queue).w].st = "handled"]
    /\ UNCHANGED <<savers, uiVars, batchVars, current_results, disk, now,
                   events, histVars>>

\* time passes
Tick ==
    /\ events < MaxEvents
    /\ events' = events + 1
    /\ now' = now + TickStep
    /\ UNCHANGED <<savers, uiVars, buttons, batchVars, current_results, disk,
                   workers, queue, histVars>>

\* the images of valid_results at which saving can raise (0: at none)
FailAt == 0..MaxWorkers

Next ==
    \/ \E b \in BOOLEAN : textChanged(b)
    \/ \E p \in DropPaths : dropEvent(p)
    \/ \E p \in DropPaths : paste_from_clipboard(p)
    \/ \E i \in Slots : remove_image_from_slot(i)
    \/ on_save_location_toggle
    \/ \E mode \in {"image_to_image", "text_to_image", "imagen4"},
          n \in 1..MaxBatchCount, ok \in BOOLEAN : start_generation(mode, n, ok)
    \/ \E w \in 1..MaxWorkers, raised \in BOOLEAN, lens \in ApiResults :
          TextToImageWorker_run(w, raised, lens)
    \/ \E w \in 1..MaxWorkers, raised \in BOOLEAN, lens \in ApiResults :
          ImageEditWorker_run(w, raised, lens)
    \/ \E epng \in BOOLEAN, fail \in FailAt : on_batch_worker_complete(epng, fail)
    \/ \E epng \in BOOLEAN : on_batch_worker_error(epng)
    \/ \E fail \in FailAt : on_generation_complete(fail)
    \/ on_generation_error
    \/ Tick

Spec == Init /\ [][Next]_vars

\* the GUI thread's event loop handles every posted completion signal
Handle ==
    \/ \E epng \in BOOLEAN, fail \in FailAt : on_batch_worker_complete(epng, fail)
    \/ \E epng \in BOOLEAN : on_batch_worker_error(epng)
    \/ \E fail \in FailAt : on_generation_complete(fail)
    \/ on_generation_error

\* main without --image: no image is preloaded into the first slot
InitNoImage == Init /\ selected_image_path = None

\* the runs started without --image, with the event loop at work
FairSpec == InitNoImage /\ [][Next]_vars /\ WF_vars(Handle)

(***************************************************************************)
(* auto_save_results statement by statement, run by two instances of the   *)
(* program on the same directories                                         *)
(***************************************************************************)
\* the byte lengths of the accumulated results a save step is called with
SaverResults == {<<200>>, <<200, 50, 200>>}

\* the size of the block of banana_<date>_NNN.png files that something else
\* than a save step puts into a directory: one more than the retries
BlockSize == MaxRetry + 1

\* the bytes of such a file
ForeignPng == <<0, 0, 300>>

\* lines 3370-3410: the early returns, valid_results, save_dir (created if it
\* is the banana folder), the files get_next_file_number lists and
\* start_number; listed: save_dir.glob(pattern) returns the files (if not,
\* get_next_file_number returns 1)
save_step_enter(s, lens, sel, soo, listed) ==
    LET me == savers[s]
        valid == ValidResults(Payload(MaxSaveSteps * s + me.runs, lens))
        dir == SaveDir(sel, soo)
    IN /\ me.pc = "idle"
       /\ me.runs < MaxSaveSteps
       /\ valid # <<>>
       /\ disk' = [disk EXCEPT ![dir].exists = TRUE]
       /\ savers' = [savers EXCEPT ![s] =
                       [me EXCEPT !.pc = "exists", !.dir = dir, !.valid = valid,
                                  !.seen = IF listed THEN ExistingFiles(disk[dir])
                                           ELSE {},
                                  \* get_next_file_number: except: return 1
                                  !.start = IF listed
                                            THEN get_next_file_number(disk[dir])
                                            ELSE 1,
                                  !.i = 1, !.saved = <<>>]]
       /\ UNCHANGED <<uiVars, buttons, batchVars, current_results, now, events,
                      workers, queue, histVars>>

\* the entry of a save step whose listing of the directory works
auto_save_enter(s, lens, sel, soo) == save_step_enter(s, lens, sel, soo, TRUE)

\* lines 3416-3425: the file name of image i and the loop that looks for a
\* name no file has
file_exists_loop(s) ==
    LET me == savers[s]
        files == disk[me.dir].files
        n == me.start + (me.i - 1)
    IN /\ me.pc = "exists"
       /\ \E free \in {FreeNumber(files, n, 0)} :
             savers' = [savers EXCEPT ![s] =
                          [me EXCEPT !.pc = "save", !.path = free,
                                     !.counter = free - n,
                                     !.occupied = (free \in DOMAIN files)]]
       /\ UNCHANGED <<uiVars, buttons, batchVars, current_results, disk, now,
                      events, workers, queue, histVars>>

\* a variant that looks for a free name again at the moment of writing;
\* C18_SameStartUnprotectedWrite does not hold with it
SavePathRechecked(me, files) == FreeNumber(files, me.path, 0)

\* the file name image.save writes to: the one the loop ended with
SavePath(me, files) == me.path

\* lines 3427-3429: image.save(filepath) and the end of the loop body; if it
\* raises (ok = FALSE) the except clause of line 3436 ends the save step
image_save(s, ok) ==
    LET me == savers[s]
        files == disk[me.dir].files
        path == SavePath(me, files)
        last == me.i = Len(me.valid) \/ ~ok
    IN /\ me.pc = "save"
       /\ IF ok
          THEN /\ disk' = [disk EXCEPT ![me.dir].files =
                              WriteFile(files, path, now + 1, me.valid[me.i])]
               /\ now' = now + 1
          ELSE UNCHANGED <<disk, now>>
       /\ savers' = [savers EXCEPT ![s] =
                       [me EXCEPT !.pc = IF last THEN "idle" ELSE "exists",
                                  !.i = me.i + 1,
                                  !.saved = IF ok THEN Append(me.saved, path)
                                            ELSE me.saved,
                                  !.runs = IF last THEN me.runs + 1 ELSE me.runs]]
       /\ UNCHANGED <<uiVars, buttons, batchVars, current_results, events,
                      workers, queue, histVars>>

\* while a save step is under way in a directory, files named like results
\* appear in it from elsewhere (copied in by the user, written by another
\* tool), numbered on from the highest
OtherFiles(d) ==
    LET files == disk[d].files
        first == IF DOMAIN files = {} THEN 1 ELSE SetMax(DOMAIN files) + 1
    IN /\ \E s \in Savers : savers[s].pc # "idle" /\ savers[s].dir = d
       /\ \A n \in DOMAIN files : files[n].data # ForeignPng
       /\ disk' = [disk EXCEPT ![d].files =
                      [n \in DOMAIN files \cup (first..(first + BlockSize - 1)) |->
                          IF n \in DOMAIN files THEN files[n]
                          ELSE File(now, ForeignPng)]]
       /\ UNCHANGED <<uiVars, buttons, batchVars, current_results, now, events,
                      workers, queue, histVars, savers>>

SaveNext ==
    \/ \E s \in Savers, lens \in SaverResults, sel \in DropPaths \cup {None},
          soo \in BOOLEAN : auto_save_enter(s, lens, sel, soo)
    \/ \E s \in Savers : file_exists_loop(s)
    \/ \E s \in Savers, ok \in BOOLEAN : image_save(s, ok)
    \/ \E d \in Dirs : OtherFiles(d)

SaveSpec == Init /\ [][SaveNext]_vars

(***************************************************************************)
(* One save step of one instance, on a directory nothing else writes to    *)
(***************************************************************************)
\* the numbers of the banana_<date>_NNN.png files a directory holds when the
\* save step begins
StepFiles == {{}, {1, 2, 4}, 1..BlockSize, 2..(BlockSize + 1)}

\* the application after start-up, on a disk whose two folders hold files
\* of today numbered by a set of StepFiles each
StepInit ==
    /\ \E banana, orig \in StepFiles :
          disk = [d \in Dirs |->
                    [exists |-> TRUE,
                     files |-> [n \in (IF d = BananaDir THEN banana ELSE orig) |->
                                  File(NowInit - 10, ForeignPng)]]]
    /\ prompt_text = FALSE
    /\ image_paths = [i \in Slots |-> None]
    /\ selected_image_path = None
    /\ save_on_original = TRUE
    /\ buttons = ButtonsFor(None, FALSE)
    /\ batch_workers = <<>>
    /\ batch_results = <<>>
    /\ completed_workers = 0
    /\ total_workers = 0
    /\ current_results = <<>>
    /\ now = NowInit
    /\ events = 0
    /\ workers = <<>>
    /\ queue = <<>>
    /\ batches = <<>>
    /\ finalize_runs = <<>>
    /\ last_finalize = NoFinalize
    /\ delivered = 0
    /\ delivered_data = <<>>
    /\ savers = [s \in Savers |-> IdleSaver]

StepNext ==
    \/ \E lens \in SaverResults, sel \in DropPaths \cup {None}, soo \in BOOLEAN,
          listed \in BOOLEAN : save_step_enter(1, lens, sel, soo, listed)
    \/ file_exists_loop(1)
    \/ \E ok \in BOOLEAN : image_save(1, ok)

StepSpec == StepInit /\ [][StepNext]_vars

(***************************************************************************)
(* The slot functions on every session                                     *)
(***************************************************************************)
\* the paths handed to add_image_to_next_available_slot and the indexes
\* handed to remove_image_from_slot
SlotPaths == {"orig/a.png", "orig/b.png", "orig/c.png"}
SlotIndexes == -1..NumSlots

\* the sets of image files that cannot be opened when a request is built
UnloadableSets == {{}, {"orig/b.png"}}

SlotAdd(p) ==
    /\ AddImage(p)
    /\ UNCHANGED <<prompt_text, save_on_original, buttons, batchVars,
                   current_results, disk, now, events, workers, queue,
                   histVars, savers>>

SlotRemove(i) ==
    /\ RemoveImage(i)
    /\ UNCHANGED <<prompt_text, save_on_original, buttons, batchVars,
                   current_results, disk, now, events, workers, queue,
                   histVars, savers>>

SlotPaste(p) ==
    /\ PasteImage(p)
    /\ UNCHANGED <<prompt_text, save_on_original, batchVars,
                   current_results, disk, now, events, workers, queue,
                   histVars, savers>>

SlotPreload(p, clear_existing) ==
    /\ PreloadImage(p, clear_existing)
    /\ UNCHANGED <<prompt_text, save_on_original, buttons, batchVars,
                   current_results, disk, now, events, workers, queue,
                   histVars, savers>>

SlotNext ==
    \/ \E p \in SlotPaths : SlotAdd(p)
    \/ \E i \in SlotIndexes : SlotRemove(i)
    \/ \E p \in SlotPaths : SlotPaste(p)
    \/ \E p \in SlotPaths, clear_existing \in BOOLEAN : SlotPreload(p, clear_existing)

SlotSpec == Init /\ [][SlotNext]_vars

(***************************************************************************)
(* Properties                                                              *)
(***************************************************************************)
Range(seq) == {seq[i] : i \in DOMAIN seq}
Batches == 1..Len(batches)

\* batch b got its total_workers tasks, and every one of them has reported
Launched(b) == batches[b].launched = batches[b].total
Reported(b) == Launched(b) /\ ~Unhandled(b)
AllReported == \A b \in Batches : Reported(b)

\* no other batch was collecting while batch b was
Alone(b) == ~batches[b].overlapped

\* the tasks of batch b that reported success, and the images they delivered
Successes(b) == {w \in WorkersOf(b) : workers[w].st = "handled" /\ workers[w].out # <<>>}
ImagesOf(b) == UNION {Range(workers[w].out) : w \in WorkersOf(b)}

RECURSIVE SumLen(_)
SumLen(S) ==
    IF S = {} THEN 0
    ELSE LET w == CHOOSE x \in S : TRUE
         IN Len(workers[w].out) + SumLen(S \ {w})

RECURSIVE SumRuns(_)
SumRuns(b) == IF b = 0 THEN 0 ELSE finalize_runs[b] + SumRuns(b - 1)

\* the workers whose images are in a result set
Origins(results) == {blob[1] : blob \in Range(results)}

\* every task of batch b has emitted its completion / emitted a failure
AllEmitted(b) ==
    Launched(b) /\ \A w \in WorkersOf(b) : workers[w].st \in {"emitted", "handled"}
AllFailed(b) == AllEmitted(b) /\ \A w \in WorkersOf(b) : workers[w].out = <<>>

\* a step in which finalize runs, and the batch of the task whose completion
\* made it run
FinalizeStep == batches' = batches /\ finalize_runs' # finalize_runs
TriggerBatch == workers[last_finalize.trigger].batch

\* the first n elements of a sequence
Prefix(seq, n) == SubSeq(seq, 1, n)

(***************************************************************************)
(* C1                                                                      *)
(***************************************************************************)
\* C1 as the specification states it: once all N tasks of a batch have
\* reported, finalize has run exactly once for that batch; hence, whichever
\* batch a run of finalize is counted for, once the tasks of every batch have
\* reported there have been exactly as many runs of finalize as batches.
C1_FinalizeOncePerBatch ==
    AllReported => SumRuns(Len(batches)) = Len(batches)

\* C1, what the code guarantees: a batch that was alone while it was
\* collecting has, once its N tasks have reported, run finalize exactly once,
\* with the completed count at N.
C1_FinalizeOnceWhenAlone ==
    \A b \in Batches :
       Alone(b) /\ Reported(b) =>
          /\ finalize_runs[b] = 1
          /\ last_finalize.batch = b =>
                /\ last_finalize.completed = batches[b].total
                /\ last_finalize.total = batches[b].total

C1_Witness ==
    \E b \in Batches :
       /\ Alone(b) /\ Reported(b) /\ batches[b].total = MaxWorkers
       /\ \E w \in WorkersOf(b) : workers[w].out # <<>>
       /\ \E w \in WorkersOf(b) : workers[w].out = <<>>

(***************************************************************************)
(* C2                                                                      *)
(***************************************************************************)
\* a completion of a batch task is next to be handled after finalize has
\* reset the counters
LateSignal ==
    /\ total_workers = 0 /\ completed_workers = 0
    /\ queue # <<>>
    /\ workers[Head(queue).w].kind \in {"t2i", "edit"}

\* C2 as the specification states it: handling a completion that arrives
\* after the batch has finalized runs no finalize and changes neither the
\* displayed result set nor the saved files.
C2_LateSignalIgnored ==
    [][LateSignal /\ queue' = Tail(queue) =>
          UNCHANGED <<finalize_runs, last_finalize, current_results, disk>>]_vars

\* C2, what the code does: every completion handled after the counters were
\* reset runs finalize again, on the images of that completion alone.
C2_LateSignalRunsFinalize ==
    [][LateSignal /\ queue' = Tail(queue) =>
          /\ FinalizeStep
          /\ last_finalize'.total = 0
          /\ last_finalize'.input = Head(queue).data
          /\ current_results' = display_results(Head(queue).data, current_results)]_vars

C2_Witness ==
    /\ last_finalize.total = 0
    /\ last_finalize.input # <<>>
    /\ last_finalize.saved # <<>>
    /\ current_results = last_finalize.input

(***************************************************************************)
(* C3                                                                      *)
(***************************************************************************)
\* C3 as the specification states it: whatever the order of the deliveries,
\* a non-empty result set handed to finalize is the images of the successful
\* tasks of a batch whose tasks have all reported: as many images as the
\* successes delivered together, the same images, none of a failure.
C3_ResultsOfTheBatch ==
    [][FinalizeStep /\ last_finalize'.input # <<>> =>
          \E b \in Batches :
             /\ Reported(b)'
             /\ Len(last_finalize'.input) = SumLen(Successes(b))'
             /\ Range(last_finalize'.input) = ImagesOf(b)']_vars

\* C3, what the code guarantees: the run of finalize of a batch that was alone
\* while it was collecting is handed the images of its successful tasks.
C3_ResultsWhenAlone ==
    LET f == last_finalize
    IN f.batch \in Batches /\ Alone(f.batch) /\ Reported(f.batch) =>
          /\ Len(f.input) = SumLen(Successes(f.batch))
          /\ Range(f.input) = ImagesOf(f.batch)

C3_Witness ==
    LET f == last_finalize
    IN /\ f.batch \in Batches /\ Alone(f.batch) /\ Reported(f.batch)
       /\ Cardinality(Successes(f.batch)) = 2
       /\ Len(f.input) = 3
       /\ f.input[1][1] > f.input[3][1]

(***************************************************************************)
(* C4                                                                      *)
(***************************************************************************)
\* a worker thread emits its completion signal
WorkerEmits == \E w \in 1..Len(workers) :
                  workers[w].st = "running" /\ workers'[w].st = "emitted"

\* C4: while a batch is collecting, after j deliveries have been handled
\* completed_workers is j and batch_results is the concatenation of the
\* images of the handled successes, however the worker threads interleave;
\* and a worker thread that emits its completion writes neither the counters
\* nor the result list.
C4_DeliveriesSerialized ==
    /\ [](total_workers > 0 =>
             /\ completed_workers = delivered
             /\ batch_results = delivered_data)
    /\ [][WorkerEmits => UNCHANGED batchVars]_vars

\* two completions were posted at the same time, one success has been
\* handled, the other is still to be handled
C4_Witness ==
    /\ total_workers = MaxWorkers
    /\ completed_workers = 2
    /\ Len(batch_results) >= 2
    /\ Len(queue) = 1
    /\ Head(queue).sig = "ok"
    /\ \A w \in 1..Len(workers) : workers[w].st # "running"

(***************************************************************************)
(* C5                                                                      *)
(***************************************************************************)
\* C5 as the specification states it: with a non-empty result set the status
\* finalize reports is the full-success one exactly if every one of the
\* total_workers tasks succeeded and the partial one otherwise, and it carries
\* the number of successes and the total.
C5_StatusTellsCounts ==
    LET f == last_finalize
        ok == Cardinality(Origins(f.input))
    IN f.batch \in Batches /\ f.input # <<>> =>
          /\ f.outcome.kind = "success" <=> ok = f.total
          /\ f.outcome.kind = "mixed" <=> ok < f.total
          /\ f.outcome.done = ok
          /\ f.outcome.total = f.total

\* C5, what the code does: with a non-empty result set the message is the
\* success message with the number of images and the save location; it
\* carries neither the number of successful tasks nor the total, and the
\* label is overwritten by the "ready" message of update_ui_state.
C5_StatusIsImageCount ==
    LET f == last_finalize
    IN f.batch \in Batches /\ f.input # <<>> =>
          /\ f.outcome = Outcome("success", Len(f.input), -1, -1, f.outcome.location)
          /\ f.label \in {"ready_all", "need_prompt", "ready_text", "idle"}

\* two of three tasks succeeded, with three images
C5_Witness ==
    LET f == last_finalize
    IN /\ f.batch \in Batches /\ Alone(f.batch)
       /\ f.total = MaxWorkers
       /\ Cardinality(Origins(f.input)) = 2
       /\ f.outcome.kind = "success" /\ f.outcome.images = 3

(***************************************************************************)
(* C6                                                                      *)
(***************************************************************************)
\* the images auto_save_results writes when saving raises at image `fail`
Written(results, fail) ==
    LET valid == ValidResults(results)
    IN IF fail \in 1..Len(valid) THEN Prefix(valid, fail - 1) ELSE valid

\* C6 as the specification states it: with non-empty accumulated results the
\* set displayed and the set auto-saved are exactly the accumulated results.
C6_DisplayedAndSavedAreResults ==
    LET f == last_finalize
    IN f.input # <<>> => f.displayed = f.input /\ f.saved_data = f.input

\* C6 amended: with non-empty accumulated results, whatever files the save
\* directory holds, the set displayed is exactly the accumulated results,
\* which are handed to auto-save, and the files written are, in order, the
\* results longer than MinValidLen bytes up to the first one whose saving
\* raises; the files found by the scan are displayed only when the
\* accumulated results are empty.
C6_ResultsBeforeScan ==
    LET f == last_finalize
    IN /\ f.input # <<>> =>
             /\ f.displayed = f.input
             /\ f.after = f.input
             /\ f.save_input = f.input
             /\ f.saved_data = Written(f.input, f.fail)
             /\ f.outcome.kind = "success"
       /\ f.outcome.kind = "mixed" => f.input = <<>>

\* results in memory and recent files in the save directory, at once
C6_Witness ==
    LET f == last_finalize
    IN /\ f.input # <<>>
       /\ Len(f.scan) >= 2
       /\ f.saved_data = f.input

(***************************************************************************)
(* C7                                                                      *)
(***************************************************************************)
\* C7 as the specification states it: when every completion reported a
\* failure and the scan of the target save directory returns at least one
\* file, finalize has run that scan and ends with the mixed (partial success)
\* status and those files as the result set, in every generation mode.
C7_FailuresReconciled ==
    LET f == last_finalize
    IN f.batch \in Batches /\ f.input = <<>> /\ f.recon # <<>> =>
          /\ f.scanned
          /\ f.outcome.kind = "mixed"
          /\ f.displayed = ReadFiles(disk, f.recon)

\* C7, what the code does: the scan runs only when an image is selected;
\* then its files, if any, are the result set of the mixed status; with no
\* image selected nothing is scanned and the status is the failure one.
C7_ReconciledWithImageOnly ==
    LET f == last_finalize
    IN f.batch \in Batches /\ f.input = <<>> =>
          /\ f.scanned =>
                /\ f.scan = f.recon
                /\ f.scan # <<>> =>
                      /\ f.outcome = Outcome("mixed", -1, Len(f.scan), f.total,
                                             f.outcome.location)
                      /\ f.displayed = ReadFiles(disk, f.scan)
                      /\ f.after = f.displayed
          /\ ~f.scanned => f.scan = <<>> /\ f.outcome.kind = "failed"

\* both tasks of a batch failed and the scan returned two recent files
C7_Witness ==
    LET f == last_finalize
    IN /\ f.batch \in Batches /\ Alone(f.batch) /\ AllFailed(f.batch)
       /\ f.total = 2
       /\ f.outcome.kind = "mixed" /\ f.outcome.done = 2
       /\ Len(f.displayed) = 2

(***************************************************************************)
(* C8                                                                      *)
(***************************************************************************)
\* C8 as the specification states it: when no task of a batch succeeded and
\* the save directory holds no recent file, the run of finalize that a task
\* of the batch sets off ends with the failure status, saves nothing and
\* leaves no image of a task in the result set.
C8_TotalFailure ==
    LET f == last_finalize
    IN f.batch \in Batches /\ TriggerBatch = f.batch
       /\ AllFailed(f.batch) /\ f.recon = <<>> =>
          /\ f.outcome.kind = "failed"
          /\ f.saved = <<>>
          /\ Origins(f.displayed) \subseteq {0}
          /\ Origins(f.after) \cap WorkersOf(f.batch) = {}

\* C8, what the code guarantees: a run of finalize with no accumulated
\* result and no file from the scan ends with the failure status and saves
\* nothing; it displays nothing or, for a batch of more than one task with
\* error.png present, that many copies of error.png, and current_results
\* keeps its earlier contents or holds those copies.
C8_FailureOfEmptyRun ==
    LET f == last_finalize
    IN f.batch \in Batches /\ f.input = <<>> /\ f.scan = <<>> =>
          /\ f.outcome = Outcome("failed", -1, f.total, f.total, "none")
          /\ f.saved = <<>> /\ f.save_input = <<>>
          /\ f.displayed \in {<<>>, [i \in 1..f.total |-> ErrorPng]}
          /\ f.displayed # <<>> => f.total > 1
          /\ f.after = IF f.displayed = <<>> THEN f.before ELSE f.displayed

\* three tasks failed, the scan ran and found no recent file, the copies of
\* error.png are displayed
C8_Witness ==
    LET f == last_finalize
    IN /\ f.batch \in Batches /\ Alone(f.batch) /\ AllFailed(f.batch)
       /\ Reported(f.batch)
       /\ f.total = MaxWorkers
       /\ f.scanned /\ f.scan = <<>>
       /\ f.outcome.kind = "failed"
       /\ Len(f.after) = MaxWorkers

(***************************************************************************)
(* C9                                                                      *)
(***************************************************************************)
AllBatchesEmitted == batches # <<>> /\ \A b \in Batches : AllEmitted(b)

\* C9 as the specification states it: under fair delivery every batch whose
\* tasks all report reaches its one terminal status; hence, if from some
\* moment on the tasks of every batch have emitted their completions, then
\* from some moment on all of them are handled and finalize has run once per
\* batch.
C9_EveryBatchDoneOnce ==
    <>[]AllBatchesEmitted =>
       <>[](AllReported /\ SumRuns(Len(batches)) = Len(batches))

\* a batch that was alone while it collected has all its tasks handled, has
\* run finalize once, with the mixed status, and the batch state is reset
C9_Witness ==
    \E b \in Batches :
       /\ Alone(b) /\ Reported(b) /\ finalize_runs[b] = 1
       /\ batches[b].total = 2
       /\ last_finalize.batch = b /\ last_finalize.outcome.kind = "mixed"
       /\ total_workers = 0

(***************************************************************************)
(* C10                                                                     *)
(***************************************************************************)
\* C10 as the specification states it: while a task of a batch has not
\* delivered its completion, no completion of another task of that batch
\* makes finalize run.
C10_NoFinalizeWhileTaskPending ==
    [][FinalizeStep /\ workers[Head(queue).w].batch = CurBatch =>
          ~Unhandled(CurBatch)']_vars

\* C10, what the code guarantees: a batch that is alone while it collects and
\* has a task that has not delivered has not run finalize, and its counters
\* stay as the deliveries left them.
C10_AloneBatchWaits ==
    \A b \in Batches :
       Alone(b) /\ Launched(b) /\ Unhandled(b) =>
          /\ finalize_runs[b] = 0
          /\ b = CurBatch =>
                /\ total_workers = batches[b].total
                /\ completed_workers < total_workers
                /\ completed_workers =
                      Cardinality({w \in WorkersOf(b) : workers[w].st = "handled"})

\* two of three tasks were handled, the third has not emitted
C10_Witness ==
    \E b \in Batches :
       /\ Alone(b) /\ b = CurBatch /\ batches[b].total = MaxWorkers
       /\ completed_workers = MaxWorkers - 1
       /\ queue = <<>>
       /\ \E w \in WorkersOf(b) : workers[w].st = "running"

(***************************************************************************)
(* C11                                                                     *)
(***************************************************************************)
\* the step in which on_batch_worker_error handles a failure completion
ErrorHandled ==
    /\ queue # <<>>
    /\ Head(queue).sig = "error"
    /\ workers[Head(queue).w].kind \in {"t2i", "edit"}
    /\ queue' = Tail(queue)

\* no worker other than the one whose completion is handled changes
SiblingsUntouched ==
    /\ Len(workers') = Len(workers)
    /\ \A w \in 1..Len(workers) : w # Head(queue).w => workers'[w] = workers[w]

\* C11 as the specification states it: handling a failure completion runs
\* finalize exactly if it makes the completed count reach the total;
\* otherwise it adds one to completed_workers and leaves batch_results and
\* batch_workers as they are; no sibling worker is touched.
C11_FailureIsData ==
    [][ErrorHandled =>
          /\ FinalizeStep <=> completed_workers + 1 = total_workers
          /\ ~FinalizeStep =>
                /\ completed_workers' = completed_workers + 1
                /\ batch_results' = batch_results
                /\ batch_workers' = batch_workers
          /\ SiblingsUntouched]_vars

\* C11, what the code does: the same, but finalize runs whenever the count is
\* at least the total, which includes every failure handled after the
\* counters were reset to 0.
C11_FailureCountsAtLeast ==
    [][ErrorHandled =>
          /\ FinalizeStep <=> AllDone(completed_workers + 1, total_workers)
          /\ ~FinalizeStep =>
                /\ completed_workers' = completed_workers + 1
                /\ batch_results' = batch_results
                /\ batch_workers' = batch_workers
                /\ UNCHANGED <<current_results, disk, buttons, total_workers>>
          /\ SiblingsUntouched]_vars

\* a failure was handled in a batch of three that is still collecting: one
\* sibling has delivered its images, the other is still running
C11_Witness ==
    /\ total_workers = MaxWorkers /\ Alone(CurBatch)
    /\ completed_workers = 2
    /\ batch_results # <<>>
    /\ \E w \in WorkersOf(CurBatch) :
          workers[w].st = "handled" /\ workers[w].out = <<>>
    /\ \E w \in WorkersOf(CurBatch) : workers[w].st = "running"

(***************************************************************************)
(* C12                                                                     *)
(***************************************************************************)
\* a step that starts a batch
BatchStarts == Len(batches') = Len(batches) + 1

\* C12 as the specification states it: while a batch is collecting, its
\* total_workers is the requested count, between 1 and MaxBatchCount, and
\* exactly that many tasks were launched for it, also when preparing the
\* input image failed.
C12_AllTasksLaunched ==
    total_workers > 0 =>
       /\ total_workers = batches[CurBatch].total
       /\ total_workers \in 1..MaxBatchCount
       /\ batches[CurBatch].launched = total_workers
       /\ Cardinality(WorkersOf(CurBatch)) = total_workers
       /\ Len(batch_workers) = total_workers

\* C12, what the code does: a batch starts with total_workers at the
\* requested count, completed_workers 0 and empty batch_results, and its
\* tasks all start at once; but when opening the input image of a batch edit
\* raises, total_workers keeps the requested count and no task is launched.
C12_LaunchedAllOrNone ==
    /\ [](total_workers > 0 =>
             /\ total_workers = batches[CurBatch].total
             /\ total_workers \in 1..MaxBatchCount
             /\ Cardinality(WorkersOf(CurBatch)) = batches[CurBatch].launched
             /\ \/ batches[CurBatch].launched = total_workers
                \/ /\ batches[CurBatch].launched = 0
                   /\ batches[CurBatch].kind = "edit")
    /\ [][BatchStarts =>
             /\ total_workers' > 0
             /\ completed_workers' = 0
             /\ batch_results' = <<>>
             /\ Len(batch_workers') = batches'[CurBatch'].launched
             /\ \A w \in WorkersOf(CurBatch)' : workers'[w].st = "running"]_vars

\* a batch of three has just started: its three tasks run, none has reported
C12_Witness ==
    /\ total_workers = MaxWorkers
    /\ completed_workers = 0
    /\ Len(batch_workers) = MaxWorkers
    /\ \A w \in WorkersOf(CurBatch) : workers[w].st = "running"
    /\ Cardinality(WorkersOf(CurBatch)) = MaxWorkers

(***************************************************************************)
(* C13                                                                     *)
(***************************************************************************)
\* the files of a directory modified less than MaxAge before t
RecentFiles(dir, t) == {n \in DOMAIN dir.files : t - dir.files[n].mtime < MaxAge}

\* the scan in the order the specification gives: filter by age, sort
\* newest first, truncate to limit
ScanFilterFirst(d, sel, soo, limit, t) ==
    LET dirname == SaveDir(sel, soo)
        dir == d[dirname]
        recent == RecentFiles(dir, t)
        sorted == SortByMtimeDesc(dir.files, recent)
        k == IF limit < Cardinality(recent) THEN limit ELSE Cardinality(recent)
    IN [i \in 1..k |-> <<dirname, sorted[i]>>]

\* the values total_workers and selected_image_path can have at a scan
ScanLimits == 0..MaxBatchCount
ScanSelections == DropPaths \cup {None}

\* C13: on every directory contents the program reaches, at every moment,
\* for every total_workers and save location, _check_saved_files returns
\* what filtering by age, sorting newest first and truncating returns:
\* min(total_workers, number of recent files) paths, newest first, none of
\* them MaxAge old or older.
C13_ScanIsFilterSortTruncate ==
    \A tw \in ScanLimits, sel \in ScanSelections, soo \in BOOLEAN :
       LET got == check_saved_files(disk, sel, soo, tw, now)
           dir == disk[SaveDir(sel, soo)]
       IN /\ got = ScanFilterFirst(disk, sel, soo, tw, now)
          /\ \A i \in 1..Len(got) :
                /\ got[i][2] \in RecentFiles(dir, now)
                /\ \A j \in 1..Len(got) :
                      i < j => dir.files[got[i][2]].mtime > dir.files[got[j][2]].mtime

\* finalize has scanned a directory that holds more recent files than
\* total_workers and an older file as well, and got total_workers paths
C13_Witness ==
    LET f == last_finalize
        dir == disk[SaveDir(selected_image_path, save_on_original)]
    IN /\ f.batch \in Batches /\ f.scanned
       /\ f.total = 2 /\ Len(f.scan) = 2
       /\ Cardinality(RecentFiles(dir, now)) > 2
       /\ DOMAIN dir.files # RecentFiles(dir, now)

\* the numbers of the files a step adds to a directory
NewNumbers(d) == DOMAIN disk'[d].files \ DOMAIN disk[d].files

SetMin(S) == CHOOSE x \in S : \A y \in S : x <= y

\* the value max(numbers) + 1, or 1 without files, on the numbers of a directory
MaxPlusOne(dir) ==
    IF DOMAIN dir.files = {} THEN 1 ELSE SetMax(DOMAIN dir.files) + 1

StepDir == SaveDir(selected_image_path, save_on_original)
StepStart == get_next_file_number(disk[StepDir])

\* a finalize step wrote the images `written`, in order, under the numbers
\* StepStart, StepStart + 1, ..., each under a name of 3 digits that reads
\* back as its number, and wrote nothing else
WrittenConsecutively(written) ==
    LET f == last_finalize'
    IN /\ Len(f.saved) = Len(written)
       /\ NewNumbers(StepDir) = {StepStart + i - 1 : i \in 1..Len(written)}
       /\ \A i \in 1..Len(written) :
             LET n == StepStart + i - 1
             IN /\ f.saved[i] = <<StepDir, n>>
                /\ n \notin DOMAIN disk[StepDir].files
                /\ disk'[StepDir].files[n].data = written[i]
                /\ Len(FileName(n)) = 3 /\ ParseInt(FileName(n)) = n
                /\ \A j \in 1..Len(written) :
                      i # j => FileName(n) # FileName(StepStart + j - 1)

CheckStep(s) == savers[s].pc = "exists" /\ savers'[s].pc = "save"
SaveStep(s) == savers[s].pc = "save" /\ savers'[s] # savers[s]
Exhausted(me) == me.counter = MaxRetry /\ me.occupied

\* C16 as the specification states it: when all 1000 retries found an
\* occupied path the artifact is not written, no existing file is
\* overwritten.
C16_ExhaustedNotWritten ==
    [][\A s \in Savers :
          SaveStep(s) /\ Exhausted(savers[s])
             => disk' = disk /\ savers'[s].saved = savers[s].saved]_vars

\* C16, the part that holds: the loop tries the names start + i + counter
\* for counter = 0, 1, ... and stops at the first one no file has, after at
\* most MaxRetry increments; image.save then writes to the name the loop
\* stopped at.
C16_RetriesBounded ==
    [][\A s \in Savers :
          LET me == savers[s]
              files == disk[me.dir].files
              n == me.start + (me.i - 1)
          IN /\ CheckStep(s) =>
                   /\ savers'[s].counter \in 0..MaxRetry
                   /\ savers'[s].path = n + savers'[s].counter
                   /\ \A k \in 0..(savers'[s].counter - 1) : n + k \in DOMAIN files
                   /\ savers'[s].counter < MaxRetry => savers'[s].path \notin DOMAIN files
                   /\ savers'[s].occupied = (savers'[s].path \in DOMAIN files)
             /\ SaveStep(s) /\ disk' # disk =>
                   /\ disk'[me.dir].files[me.path].data = me.valid[me.i]
                   /\ savers'[s].saved = Append(me.saved, me.path)]_vars

\* an instance found MaxRetry + 1 names occupied and has written its image
\* over the file of the last one
C16_Witness ==
    \E s \in Savers :
       LET me == savers[s]
       IN /\ Exhausted(me) /\ me.pc # "save" /\ me.saved # <<>>
          /\ me.saved[Len(me.saved)] = me.path
          /\ disk[me.dir].files[me.path].data \in Range(me.valid)
          /\ Cardinality({n \in DOMAIN disk[me.dir].files :
                            disk[me.dir].files[n].data = ForeignPng}) = MaxRetry

(***************************************************************************)
(* C17                                                                     *)
(***************************************************************************)
\* a step in which image.save of instance s raises
SaveFails(s) == SaveStep(s) /\ disk' = disk

\* C17 as the specification states it: a failure to persist one artifact
\* affects only that artifact, the save step goes on with the artifacts
\* after it in the list.
C17_SiblingsStillWritten ==
    [][\A s \in Savers :
          SaveFails(s) /\ savers[s].i < Len(savers[s].valid)
             => savers'[s].pc = "exists" /\ savers'[s].i = savers[s].i + 1]_vars

\* C17, what the code does: a failure at one artifact ends the save step;
\* the artifacts written before it stay in saved_files, the artifacts after
\* it are never tried.
C17_FailureEndsSaveStep ==
    [][\A s \in Savers :
          SaveFails(s) =>
             /\ savers'[s].pc = "idle"
             /\ savers'[s].saved = savers[s].saved
             /\ Len(savers[s].saved) = savers[s].i - 1]_vars

\* a save step of two valid images has ended at the failure of the first:
\* the second, with nothing wrong, was not written
C17_Witness ==
    \E s \in Savers :
       LET me == savers[s]
       IN /\ me.pc = "idle" /\ me.runs = 1
          /\ Len(me.valid) = 2 /\ me.saved = <<>>
          /\ \A n \in DOMAIN disk[me.dir].files :
                disk[me.dir].files[n].data \notin Range(me.valid)

(***************************************************************************)
(* C18                                                                     *)
(***************************************************************************)
\* the images instance s has written that no file of its directory holds
Lost(s) ==
    {k \in 1..Len(savers[s].saved) :
        disk[savers[s].dir].files[savers[s].saved[k]].data # savers[s].valid[k]}

\* C18: two instances inside a save step that listed the same files of the
\* same directory have the same start number; and image.save writes to the
\* name its instance's loop ended with, whatever has happened to that name
\* since the loop looked, replacing the file if there is one by then.
C18_SameStartUnprotectedWrite ==
    /\ [](\A s, t \in Savers :
            /\ savers[s].pc # "idle" /\ savers[t].pc # "idle"
            /\ savers[s].dir = savers[t].dir /\ savers[s].seen = savers[t].seen
            => savers[s].start = savers[t].start)
    /\ [][\A s \in Savers :
             SaveStep(s) /\ ~SaveFails(s) =>
                LET me == savers[s]
                IN /\ savers'[s].saved = Append(me.saved, me.path)
                   /\ disk'[me.dir].files[me.path].data = me.valid[me.i]
                   /\ DOMAIN disk'[me.dir].files =
                         DOMAIN disk[me.dir].files \cup {me.path}]_vars

\* two instances took the same start number, the loop of each found the
\* name free, both wrote that name: the image of one of them is lost
C18_Witness ==
    \E s, t \in Savers :
       /\ s # t
       /\ savers[s].dir = savers[t].dir /\ savers[s].seen = savers[t].seen
       /\ savers[s].start = savers[t].start
       /\ savers[s].saved # <<>> /\ savers[t].saved # <<>>
       /\ savers[s].saved[1] = savers[t].saved[1]
       /\ savers[s].counter = 0 /\ savers[t].counter = 0
       /\ 1 \in Lost(s) /\ Lost(t) = {}

(***************************************************************************)
(* C19                                                                     *)
(***************************************************************************)
\* the empty slots of a session
EmptySlots(paths) == {i \in Slots : paths[i] = None}

\* C19: on every session, for every path, add_image_to_next_available_slot
\* with an empty slot stores the path in the lowest empty slot, leaves the
\* other slots as they are and returns true; on a full session it returns
\* false and leaves the 4 slots as they are.
C19_AddFillsLowestEmptySlot ==
    \A p \in SlotPaths :
       LET r == add_image_to_next_available_slot(image_paths, p)
           empty == EmptySlots(image_paths)
       IN IF empty # {}
          THEN /\ r.ok
               /\ r.paths[SetMin(empty)] = p
               /\ \A i \in Slots \ {SetMin(empty)} : r.paths[i] = image_paths[i]
          ELSE ~r.ok /\ r.paths = image_paths

\* a full session, on which add_image_to_next_available_slot returns false
C19_Witness ==
    /\ EmptySlots(image_paths) = {}
    /\ image_paths[0] # image_paths[1]
    /\ \E p \in SlotPaths :
          ~add_image_to_next_available_slot(image_paths, p).ok

(***************************************************************************)
(* C20                                                                     *)
(***************************************************************************)
\* C20: remove_image_from_slot(i) with i in 0..3 empties slot i and leaves
\* every other slot with its path at its own index; with any other index it
\* changes nothing; add_image_to_next_available_slot after it puts the path
\* into the lowest empty slot, which is slot i if the session was full.
C20_RemoveEmptiesOneSlot ==
    [][\A i \in SlotIndexes :
          RemoveImage(i) =>
             /\ i \in Slots =>
                   /\ image_paths'[i] = None
                   /\ \A j \in Slots \ {i} : image_paths'[j] = image_paths[j]
             /\ i \notin Slots => image_paths' = image_paths
             /\ \A p \in SlotPaths :
                   LET r == add_image_to_next_available_slot(image_paths', p)
                   IN /\ EmptySlots(image_paths') # {} =>
                            r.paths[SetMin(EmptySlots(image_paths'))] = p
                      /\ i \in Slots /\ EmptySlots(image_paths) = {} =>
                            r.paths = [image_paths EXCEPT ![i] = p]]_vars

\* slot 1 of a full session has been emptied: the other three slots hold
\* their paths where they were
C20_Witness ==
    /\ EmptySlots(image_paths) = {1}
    /\ image_paths[0] # image_paths[2] /\ image_paths[2] # image_paths[3]
    /\ selected_image_path = image_paths[0]

(***************************************************************************)
(* C21                                                                     *)
(***************************************************************************)
\* the occupied slots of a session, and the k-th of them from slot 0 up
OccupiedSlots(paths) == Slots \ EmptySlots(paths)
NthOccupied(paths, k) ==
    CHOOSE i \in OccupiedSlots(paths) :
       Cardinality({j \in OccupiedSlots(paths) : j < i}) = k - 1

\* C21: on every session the slot operations reach, get_active_image_paths
\* returns one path per occupied slot, the k-th being the path of the k-th
\* occupied slot counted from slot 0; a step that fills a slot below an
\* occupied one puts the new path in front of that slot's path.
C21_ActivePathsInSlotOrder ==
    /\ [](LET active == get_active_image_paths(image_paths)
          IN /\ Len(active) = Cardinality(OccupiedSlots(image_paths))
             /\ \A k \in 1..Len(active) :
                   active[k] = image_paths[NthOccupied(image_paths, k)])
    /\ [][\A p \in SlotPaths :
             /\ OccupiedSlots(image_paths) = {2}
             /\ image_paths' = [image_paths EXCEPT ![0] = p]
             => get_active_image_paths(image_paths') = <<p, image_paths[2]>>]_vars

\* slot 0 and slot 2 hold different paths, slot 1 is empty, and a path of a
\* higher slot is listed behind the one of slot 0
C21_Witness ==
    /\ OccupiedSlots(image_paths) = {0, 2}
    /\ image_paths[0] = "orig/b.png" /\ image_paths[2] = "orig/a.png"
    /\ get_active_image_paths(image_paths) = <<"orig/b.png", "orig/a.png">>

(***************************************************************************)
(* C22                                                                     *)
(***************************************************************************)
\* the session has its 4 slots and get_image_count counts the occupied ones
SessionShape ==
    /\ DOMAIN image_paths = Slots
    /\ get_image_count(image_paths) = Cardinality(OccupiedSlots(image_paths))
    /\ get_image_count(image_paths) \in 0..NumSlots

\* the occupied slots that hold another path, or none, after the step
ChangedSlots == {i \in OccupiedSlots(image_paths) : image_paths'[i] # image_paths[i]}

\* a step that removes the image of slot i or clears all slots
RemovedOrCleared(i) ==
    \/ image_paths' = ClearSlot(image_paths, i)
    \/ \E p \in SlotPaths : PreloadImage(p, TRUE)

\* C22 as the specification states it: the session keeps its 4 slots and
\* its count, and a stored path leaves its slot only through an explicit
\* remove or clear of that slot.
C22_PathsLeaveByRemoveOnly ==
    /\ []SessionShape
    /\ [][\A i \in ChangedSlots : RemovedOrCleared(i)]_vars

\* C22 amended: the session keeps its 4 slots and its count, and a stored
\* path leaves its slot only through a remove or clear of that slot, or,
\* for slot 0 of a full session, through a paste that replaces it.
C22_SlotsKeepTheirPaths ==
    /\ []SessionShape
    /\ [][\A i \in ChangedSlots :
             \/ RemovedOrCleared(i)
             \/ /\ i = 0 /\ EmptySlots(image_paths) = {}
                /\ \E p \in SlotPaths : PasteImage(p)]_vars

\* a full session of three different paths
C22_Witness ==
    /\ EmptySlots(image_paths) = {}
    /\ get_image_count(image_paths) = NumSlots
    /\ {image_paths[i] : i \in Slots} = SlotPaths
    /\ image_paths[0] = image_paths[3]

(***************************************************************************)
(* C23                                                                     *)
(***************************************************************************)
\* C23 as the specification states it: on every session, the request built
\* by prepare_session_contents attaches at most 3 images.
C23_AtMostThreeImages ==
    \A unloadable \in UnloadableSets :
       Len(prepare_session_contents(image_paths, unloadable).images) <= MaxImagesLimit

\* C23, what the code does: the request attaches the image of every occupied
\* slot that can be opened, up to 4.
C23_AtMostFourImages ==
    \A unloadable \in UnloadableSets :
       LET images == prepare_session_contents(image_paths, unloadable).images
       IN /\ Len(images) <= NumSlots
          /\ unloadable = {} => images = get_active_image_paths(image_paths)

\* a full session: the request has 4 images
C23_Witness ==
    /\ get_image_count(image_paths) = NumSlots
    /\ Len(prepare_session_contents(image_paths, {}).images) = NumSlots

(***************************************************************************)
(* C24                                                                     *)
(***************************************************************************)
\* the references of a request are as many as its images and differ
RefsMatchImages(c) ==
    /\ Len(c.image_refs) = Len(c.images)
    /\ \A i, j \in 1..Len(c.image_refs) :
          i # j => c.image_refs[i] # c.image_refs[j]
    /\ \A i, j \in 1..Len(c.image_refs) :
          i < j => c.image_refs[i] < c.image_refs[j]

\* C24 as the specification states it: on every session with 2 or more
\* images the prompt has one reference per attached image, in the order of
\* the attachments, all different, also with a path in two slots or an
\* image that cannot be opened.
C24_OneReferencePerImage ==
    \A unloadable \in UnloadableSets :
       get_image_count(image_paths) >= 2
          => RefsMatchImages(prepare_session_contents(image_paths, unloadable))

\* C24, what holds: with 2 or more images on pairwise different paths that
\* can all be opened, the references are the slot numbers (from 1) of the
\* occupied slots in ascending order, one per attached image, and the
\* images are attached in that order.
C24_ReferencesOfDistinctPaths ==
    LET c == prepare_session_contents(image_paths, {})
        occupied == OccupiedSlots(image_paths)
    IN /\ get_image_count(image_paths) >= 2
       /\ \A i, j \in occupied : i # j => image_paths[i] # image_paths[j]
       => /\ RefsMatchImages(c)
          /\ \A k \in 1..Len(c.images) :
                /\ c.image_refs[k] = NthOccupied(image_paths, k) + 1
                /\ c.images[k] = image_paths[NthOccupied(image_paths, k)]

\* slots 0 and 2 hold different images: the references are 1 and 3
C24_Witness ==
    /\ OccupiedSlots(image_paths) = {0, 2}
    /\ image_paths[0] # image_paths[2]
    /\ prepare_session_contents(image_paths, {}).image_refs = <<1, 3>>

(***************************************************************************)
(* C25                                                                     *)
(***************************************************************************)
\* the batch started last has a task whose completion is still to be handled
Collecting == CurBatch \in Batches /\ Unhandled(CurBatch)

\* a step of update_ui_state in a user event: typing in the prompt, pasting
UiStateStep == events' = events + 1 /\ queue' = queue /\ workers' = workers

\* C25 as the specification states it: while a batch is collecting the three
\* generation buttons are disabled, whatever user events are handled, and no
\* batch starts while an earlier one still has a task to be handled.
C25_OneBatchCollecting ==
    /\ [](Collecting => buttons = AllDisabled)
    /\ [][BatchStarts => \A b \in Batches : ~Unhandled(b)]_vars

\* C25, what the code guarantees: a batch starts only from an enabled button
\* and, launching its tasks, disables all three; while it is collecting the
\* buttons are enabled again only by update_ui_state in a user event (which
\* enables TXT-TO-IMG and IMAGEN-4 whenever the prompt is not empty) or by
\* the handler of a completion.
C25_ButtonsUntilUiEvent ==
    /\ [][BatchStarts =>
             /\ buttons # AllDisabled
             /\ batches'[CurBatch'].launched > 0 => buttons' = AllDisabled]_vars
    /\ [][Collecting /\ Collecting' /\ batches' = batches
             /\ buttons = AllDisabled /\ buttons' # AllDisabled
             => \/ UiStateStep /\ buttons' = ButtonsFor(selected_image_path', prompt_text')
                \/ queue # <<>> /\ queue' = Tail(queue)]_vars

\* the prompt was edited while the first batch was collecting, which enabled
\* the buttons, and a second batch was started: both have tasks running
C25_Witness ==
    /\ Len(batches) = 2
    /\ \A b \in Batches : \E w \in WorkersOf(b) : workers[w].st = "running"
    /\ batches[1].overlapped /\ batches[2].overlapped
    /\ finalize_runs = <<0, 0>>

(***************************************************************************)
(* C26                                                                     *)
(***************************************************************************)
\* a step in which on_batch_worker_complete or on_batch_worker_error handles
\* the completion of a batch task, and the batch that launched that task
BatchCompletionHandled ==
    /\ queue # <<>>
    /\ workers[Head(queue).w].kind \in {"t2i", "edit"}
    /\ queue' = Tail(queue)
LaunchingBatch == workers[Head(queue).w].batch

\* C26 as the specification states it: a completion of a task of an earlier
\* batch changes neither the count nor the results of the batch collecting
\* now and does not finalize it; the results finalize uses come from tasks
\* of the finalized batch only.
C26_CountedInOwnBatch ==
    /\ [][BatchCompletionHandled /\ LaunchingBatch # CurBatch =>
             UNCHANGED <<completed_workers, batch_results, finalize_runs>>]_vars
    /\ [][FinalizeStep =>
             Origins(last_finalize'.input) \subseteq WorkersOf(last_finalize'.batch)]_vars

\* C26, what the code guarantees: the completion of a task of a batch that
\* no later batch has overlapped is handled while that batch is the current
\* one, and a finalize it triggers uses images of that batch's tasks only.
C26_CountedInBatchAlone ==
    [][BatchCompletionHandled /\ Alone(LaunchingBatch) =>
          /\ LaunchingBatch = CurBatch
          /\ FinalizeStep =>
                /\ last_finalize'.batch = LaunchingBatch
                /\ Origins(last_finalize'.input) \subseteq WorkersOf(LaunchingBatch)]_vars

\* the second of two batches that did not overlap has been finalized on the
\* images of its own task
C26_Witness ==
    LET f == last_finalize
    IN /\ Len(batches) = 2 /\ f.batch = 2
       /\ Alone(1) /\ Alone(2) /\ Reported(1) /\ Reported(2)
       /\ f.input # <<>>
       /\ Origins(f.input) = WorkersOf(2)

(***************************************************************************)
(* C27                                                                     *)
(***************************************************************************)
\* the completion signals of worker w that are posted and not yet handled
PostedBy(w) == {i \in DOMAIN queue : queue[i].w = w}
\* the tasks of batch b whose success has been handled
Succeeded(b) == {w \in WorkersOf(b) : workers[w].st = "handled" /\ workers[w].out # <<>>}
\* the same set once the step has marked its completion handled
SucceededAfter(b) == {w \in WorkersOf(b) : workers'[w].st = "handled" /\ workers'[w].out # <<>>}

\* C27 as the specification states it, for the batch being finalized: the
\* results finalize works on are non-empty exactly if a task of that batch
\* has succeeded.
C27_ResultsIffBatchTaskSucceeded ==
    [][FinalizeStep =>
          (last_finalize'.input # <<>> <=> SucceededAfter(last_finalize'.batch) # {})]_vars

\* C27, what the code guarantees: a worker posts one completion signal when
\* it ends and none before, the signal is handled once, a success signal
\* carries at least one image and a failure none, and the results of a batch
\* that no later batch overlapped are non-empty at finalize exactly if one
\* of its tasks succeeded.
C27_OneCompletionPerTask ==
    /\ [](\A w \in DOMAIN workers :
            Cardinality(PostedBy(w)) = IF workers[w].st = "emitted" THEN 1 ELSE 0)
    /\ [](\A i \in DOMAIN queue :
            /\ queue[i].sig \in {"ok", "error"}
            /\ queue[i].sig = "ok" <=> queue[i].data # <<>>)
    /\ [][\A w \in DOMAIN workers :
            workers'[w].st # workers[w].st =>
                <<workers[w].st, workers'[w].st>> \in
                    {<<"running", "emitted">>, <<"emitted", "handled">>}]_vars
    /\ [][FinalizeStep /\ Alone(last_finalize'.batch) =>
            (last_finalize'.input # <<>> <=> SucceededAfter(last_finalize'.batch) # {})]_vars

\* a batch of two tasks has been finalized after one task failed on an empty
\* API result and the other succeeded
C27_Witness ==
    LET f == last_finalize
    IN /\ f.batch \in Batches /\ Alone(f.batch)
       /\ f.input # <<>>
       /\ Succeeded(f.batch) # {}
       /\ \E v \in WorkersOf(f.batch) : workers[v].st = "handled" /\ workers[v].out = <<>>

(***************************************************************************)
(* C28                                                                     *)
(***************************************************************************)
\* the directories of the files in a list of <<directory, number>> paths
DirsOf(paths) == {paths[i][1] : i \in DOMAIN paths}
\* a step that changes the directory auto_save_results and
\* _check_saved_files would use, or whether finalize would scan at all
RequestChanges ==
    \/ SaveDir(selected_image_path', save_on_original')
          # SaveDir(selected_image_path, save_on_original)
    \/ (selected_image_path' = None) # (selected_image_path = None)

\* C28 as the specification states it: finalize saves the results to the
\* directory that the slots and the save-location setting gave when the
\* batch was started, and scans the disk, in that directory, exactly if an
\* image was selected when the batch was started.
C28_RequestFixedAtStart ==
    [][FinalizeStep =>
          LET f == last_finalize'
              request == batches[f.batch]
          IN /\ DirsOf(f.saved) \subseteq {request.save_dir}
             /\ DirsOf(f.scan) \subseteq {request.save_dir}
             /\ f.scanned = request.scan]_vars

\* C28, what the code guarantees: finalize saves to, and scans, the
\* directory given by selected_image_path and save_on_original as they are
\* when finalize runs, and only a user event (drop, remove, paste, toggle of
\* the save location) changes that directory, never a worker or a handler.
C28_RequestReadAtFinalize ==
    /\ [][FinalizeStep =>
             LET f == last_finalize'
                 dir == SaveDir(selected_image_path, save_on_original)
             IN /\ DirsOf(f.saved) \subseteq {dir}
                /\ DirsOf(f.scan) \subseteq {dir}
                /\ f.scanned = (selected_image_path # None)]_vars
    /\ [][RequestChanges => UiStateStep]_vars

\* a batch has been finalized and its results saved to another directory
\* than the one of its request, after the request's inputs changed while it
\* was collecting
C28_Witness ==
    LET f == last_finalize
    IN /\ f.batch \in Batches /\ Alone(f.batch)
       /\ f.saved # <<>>
       /\ batches[f.batch].save_dir \notin DirsOf(f.saved)

(***************************************************************************)
(* C29                                                                     *)
(***************************************************************************)
\* a step in which image.save of instance s writes its file
Writes(s) == SaveStep(s) /\ ~SaveFails(s)
\* the files of the save directory of s other than those s has written
Foreign(s) == DOMAIN disk[savers[s].dir].files \ Range(savers[s].saved)

\* C29 as the specification states it: in a save step of one instance on a
\* directory nothing else writes to, whatever files the directory held and
\* whether or not they could be listed, every image is written to a path
\* no file has, neither one from before the step nor one of the step.
C29_NeverOverwrites ==
    [][Writes(1) => savers[1].path \notin DOMAIN disk[savers[1].dir].files]_vars

\* C29, what the code guarantees: the paths written in one save step are
\* pairwise distinct; a path is written over an existing file only if the
\* loop found MaxRetry + 1 names occupied, and then over a file from before
\* the step; with a start number above all existing numbers no file is
\* written over.
C29_NewUnlessExhausted ==
    /\ [](\A i, j \in DOMAIN savers[1].saved :
            i # j => savers[1].saved[i] # savers[1].saved[j])
    /\ [][Writes(1) =>
             LET me == savers[1]
                 files == disk[me.dir].files
             IN /\ me.path \in DOMAIN files =>
                      Exhausted(me) /\ me.path \in Foreign(1)
                /\ (\A n \in Foreign(1) : n < me.start) => me.path \notin DOMAIN files]_vars

\* the listing failed on a folder holding the files 1, 2 and 4: the save
\* step started at 1 and has written its two images as 3 and 5
C29_Witness ==
    LET me == savers[1]
    IN /\ me.pc = "idle" /\ me.runs = 1
       /\ me.start = 1 /\ me.saved = <<3, 5>>
       /\ DOMAIN disk[me.dir].files = 1..5
       /\ \A k \in 1..2 : disk[me.dir].files[me.saved[k]].data = me.valid[k]

(***************************************************************************)
(* C30                                                                     *)
(***************************************************************************)
\* all slots hold an image
Full == EmptySlots(image_paths) = {}
\* on a full session a paste replaces the image of slot 0 and leaves the
\* other slots alone; a drop or a file selection changes no slot and ends
\* with the "no free slot" status
PasteReplacesDropSkips ==
    /\ [](Full => \A p \in SlotPaths :
                    /\ PasteReport(image_paths, p) = "replaced_slot_1"
                    /\ DropReport(image_paths, p) = "no_free_slot")
    /\ [][Full => \A p \in SlotPaths :
                    /\ PasteImage(p) =>
                          /\ image_paths'[0] = p
                          /\ \A i \in Slots \ {0} : image_paths'[i] = image_paths[i]
                    /\ AddImage(p) => image_paths' = image_paths]_vars

\* C30 as the specification states it: only a paste replaces slot 0 of a
\* full session; a drop, a file selection and a preload change no slot of
\* a full session and report the image as skipped.
C30_OnlyPasteChangesFullSession ==
    /\ PasteReplacesDropSkips
    /\ [](Full => \A p \in SlotPaths, clear_existing \in BOOLEAN :
                    PreloadReport(image_paths, p, clear_existing)
                       \in {"slots_full", "already_in_slots"})
    /\ [][Full => \A p \in SlotPaths, clear_existing \in BOOLEAN :
                    PreloadImage(p, clear_existing) => image_paths' = image_paths]_vars

\* C30 amended: only a paste replaces slot 0 of a full session; a drop, a
\* file selection and a preload without clear_existing change no slot of a
\* full session and report the image as skipped (or as already there); a
\* preload with clear_existing empties all slots and loads the image into
\* slot 0.
C30_ReplaceFirstOnPasteOnly ==
    /\ PasteReplacesDropSkips
    /\ [](Full => \A p \in SlotPaths :
                    /\ PreloadReport(image_paths, p, FALSE)
                          = IF \E i \in Slots : image_paths[i] = p
                            THEN "already_in_slots" ELSE "slots_full"
                    /\ PreloadReport(image_paths, p, TRUE) = "loaded")
    /\ [][Full => \A p \in SlotPaths :
                    /\ PreloadImage(p, FALSE) => image_paths' = image_paths
                    /\ PreloadImage(p, TRUE) =>
                          image_paths' = [i \in Slots |-> IF i = 0 THEN p ELSE None]]_vars

\* a full session of one image four times after a paste of another image:
\* the pasted image is in slot 0, the three other slots are as they were
C30_Witness ==
    /\ Full
    /\ image_paths[0] = "orig/c.png"
    /\ \A i \in Slots \ {0} : image_paths[i] = "orig/a.png"
    /\ selected_image_path = "orig/c.png"

====
